---- MODULE Spec2Model ----
(***************************************************************************)
(* reverse-proxy-service: path rewrite rules, the URI rebuild              *)
(* (PathRewriter::rewrite_uri), the forwarding future (RevProxyFuture)     *)
(* and the two service wrappers (OneshotService, ReusedService + Builder). *)
(*                                                                         *)
(* Strings are sequences of one-character strings.  Option<T> is a         *)
(* sequence of length 0 (None) or 1 (Some).                                *)
(***************************************************************************)
EXTENDS Integers, Sequences, FiniteSets, TLC

VARIABLES builders, services, futs, net, ret, rw, arcs, dropped

vars == <<builders, services, futs, net, ret, rw, arcs, dropped>>

(***************************************************************************)
(* Bounds of the model.                                                    *)
(***************************************************************************)
\* services (of both variants) ever constructed
MaxSvc == 2
\* builders ever constructed
MaxBuilders == 1
\* polls of one future that may return Ready before the model stops polling it
MaxReady == 2
\* calls (forwarding units) ever made
MaxCalls == 2
\* characters after the leading '/' of an enumerated incoming path
MaxPathLen == 3
\* largest count given to ReplaceN
MaxN == 2

None == <<>>
Some(x) == <<x>>

Min(a, b) == IF a <= b THEN a ELSE b

(***************************************************************************)
(* str helpers (std): starts_with / strip_prefix / strip_suffix /          *)
(* match_indices / replace / replacen, as used by the rewrite rules.       *)
(***************************************************************************)
\* s[i+1 ..] starts with pat (i is a 0-based byte offset)
MatchesAt(s, pat, i) ==
    /\ i + Len(pat) <= Len(s)
    /\ \A k \in 1..Len(pat) : s[i + k] = pat[k]

RECURSIVE MatchIndicesFrom(_, _, _)
\* str::match_indices: the start offsets of the leftmost non-overlapping
\* matches; the empty pattern matches at every boundary 0..=len.
MatchIndicesFrom(s, pat, i) ==
    IF i + Len(pat) > Len(s) THEN <<>>
    ELSE IF MatchesAt(s, pat, i)
         THEN <<i>> \o MatchIndicesFrom(s, pat, i + (IF Len(pat) = 0 THEN 1 ELSE Len(pat)))
         ELSE MatchIndicesFrom(s, pat, i + 1)

MatchIndices(s, pat) == MatchIndicesFrom(s, pat, 0)

Contains(s, pat) == MatchIndices(s, pat) # <<>>

RECURSIVE ReplaceLoop(_, _, _, _, _)
\* the loop shared by str::replace and str::replacen
ReplaceLoop(s, ms, patLen, to, lastEnd) ==
    IF ms = <<>> THEN SubSeq(s, lastEnd + 1, Len(s))
    ELSE SubSeq(s, lastEnd + 1, Head(ms)) \o to
         \o ReplaceLoop(s, Tail(ms), patLen, to, Head(ms) + patLen)

StrReplace(s, from, to) == ReplaceLoop(s, MatchIndices(s, from), Len(from), to, 0)

\* StrReplacen, but counting the matches from the right
StrReplacen_Rightmost(s, from, to, count) ==
    LET ms == MatchIndices(s, from)
    IN  ReplaceLoop(s, SubSeq(ms, Len(ms) - Min(count, Len(ms)) + 1, Len(ms)),
                    Len(from), to, 0)

StrReplacen(s, from, to, count) ==
    LET ms == MatchIndices(s, from)
    IN  ReplaceLoop(s, SubSeq(ms, 1, Min(count, Len(ms))), Len(from), to, 0)

RECURSIVE TrimStartMatches(_, _)
\* str::trim_start_matches: strips the prefix as often as it matches
TrimStartMatches(s, p) ==
    IF Len(p) > 0 /\ MatchesAt(s, p, 0)
    THEN TrimStartMatches(SubSeq(s, Len(p) + 1, Len(s)), p) ELSE s

\* StripPrefix, but by trim_start_matches
StripPrefix_Repeated(s, p) ==
    IF MatchesAt(s, p, 0) THEN Some(TrimStartMatches(s, p)) ELSE None

StripPrefix(s, p) ==
    IF MatchesAt(s, p, 0) THEN Some(SubSeq(s, Len(p) + 1, Len(s))) ELSE None

StripSuffix(s, p) ==
    IF Len(p) <= Len(s) /\ MatchesAt(s, p, Len(s) - Len(p))
    THEN Some(SubSeq(s, 1, Len(s) - Len(p))) ELSE None

(***************************************************************************)
(* Rewrite rules (rewrite.rs).  A rule is a record [tag, old, new, n];     *)
(* unused fields are empty.  Func is a caller-supplied FnMut closure: the  *)
(* closure modelled here counts its calls in n, returns old on its even   *)
(* calls and new on its odd calls.                                         *)
(***************************************************************************)
Identity == [tag |-> "Identity", old |-> <<>>, new |-> <<>>, n |-> 0]
Static(v) == [tag |-> "Static", old |-> <<>>, new |-> v, n |-> 0]
ReplaceAll(old, new) == [tag |-> "ReplaceAll", old |-> old, new |-> new, n |-> 0]
ReplaceN(old, new, n) == [tag |-> "ReplaceN", old |-> old, new |-> new, n |-> n]
TrimPrefix(p) == [tag |-> "TrimPrefix", old |-> p, new |-> <<>>, n |-> 0]
TrimSuffix(p) == [tag |-> "TrimSuffix", old |-> p, new |-> <<>>, n |-> 0]
AppendPrefix(v) == [tag |-> "AppendPrefix", old |-> <<>>, new |-> v, n |-> 0]
AppendSuffix(v) == [tag |-> "AppendSuffix", old |-> <<>>, new |-> v, n |-> 0]
Func(a, b) == [tag |-> "Func", old |-> a, new |-> b, n |-> 0]

\* the rule type implements Clone: every rule derives it but Func
IsClone(r) == r.tag # "Func"

\* PathRewriter::rewrite: the returned path
RewriteOut(r, path) ==
    CASE r.tag = "Identity" -> path
      [] r.tag = "Static" -> r.new
      [] r.tag = "ReplaceAll" ->
            IF Contains(path, r.old) THEN StrReplace(path, r.old, r.new) ELSE path
      [] r.tag = "ReplaceN" ->
            IF Contains(path, r.old) THEN StrReplacen(path, r.old, r.new, r.n) ELSE path
      [] r.tag = "TrimPrefix" ->
            LET st == StripPrefix(path, r.old) IN IF st # None THEN st[1] ELSE path
      [] r.tag = "TrimSuffix" ->
            LET st == StripSuffix(path, r.old) IN IF st # None THEN st[1] ELSE path
      [] r.tag = "AppendPrefix" -> r.new \o path
      [] r.tag = "AppendSuffix" -> path \o r.new
      [] r.tag = "Func" -> IF r.n % 2 = 0 THEN r.old ELSE r.new

\* PathRewriter::rewrite takes &mut self: the rule after the call
RewriteState(r) ==
    IF r.tag = "Func" THEN [r EXCEPT !.n = r.n + 1] ELSE r

(***************************************************************************)
(* http::uri as used by rewrite_uri and by the constructors:               *)
(* PathAndQuery parsing, the Uri accessors, Scheme / Authority TryFrom.    *)
(* A Uri is [scheme, authority : Option<str>, path : str, query :          *)
(* Option<str>] where path is the stored (possibly empty) path bytes.      *)
(***************************************************************************)
\* bytes (of those the model uses) that PathAndQuery rejects in a path
PathForbidden == {" ", "<", ">"}
\* bytes (of those the model uses) that PathAndQuery rejects in a query
QueryForbidden == {" ", "<", ">"}
\* bytes (of those the model uses) that Authority rejects or that end it
AuthorityForbidden == {" ", "<", ">", "/", "?", "#"}
\* bytes (of those the model uses) that a Scheme rejects
SchemeForbidden == {" ", "<", ">", "/", "?", "#", ":"}

SetMin(S) == CHOOSE x \in S : \A y \in S : x <= y

FirstIn(S) == IF S = {} THEN 0 ELSE SetMin(S)

UriOk(p, q) == [ok |-> TRUE, path |-> p, query |-> q, err |-> None]
UriErr(e) == [ok |-> FALSE, path |-> <<>>, query |-> None, err |-> Some(e)]

\* .path_and_query(src): the path runs to the first '?' or '#', the query from
\* the first '?' to the first '#'; a fragment is cut off; a forbidden byte
\* before the fragment is InvalidUriChar.
ParsePathAndQuery(src) ==
    LET p == FirstIn({i \in 1..Len(src) :
                        src[i] \in ({"?", "#"} \cup PathForbidden)})
    IN  IF p = 0 THEN UriOk(src, None)
        ELSE IF src[p] = "#" THEN UriOk(SubSeq(src, 1, p - 1), None)
        ELSE IF src[p] # "?" THEN UriErr("InvalidUriChar")
        ELSE LET q == FirstIn({i \in (p + 1)..Len(src) :
                                 src[i] \in ({"#"} \cup QueryForbidden)})
             IN  IF q = 0
                 THEN UriOk(SubSeq(src, 1, p - 1), Some(SubSeq(src, p + 1, Len(src))))
                 ELSE IF src[q] = "#"
                 THEN UriOk(SubSeq(src, 1, p - 1), Some(SubSeq(src, p + 1, q - 1)))
                 ELSE UriErr("InvalidUriChar")

\* Uri::builder().scheme(..).authority(..).path_and_query(..).build()
UriBuild(scheme, authority, pAndQ) ==
    LET pq == ParsePathAndQuery(pAndQ)
    IN  IF pq.ok
        THEN [ok |-> TRUE, err |-> None,
              uri |-> [scheme |-> Some(scheme), authority |-> Some(authority),
                       path |-> pq.path, query |-> pq.query]]
        ELSE [ok |-> FALSE, err |-> pq.err,
              uri |-> [scheme |-> None, authority |-> None,
                       path |-> <<>>, query |-> None]]

\* Uri::path(): an empty stored path of a URI that has a scheme or a query
\* reads as "/"
UriPath(u) ==
    IF u.path # <<>> THEN u.path
    ELSE IF u.scheme # None \/ u.query # None THEN <<"/">> ELSE <<>>

\* Uri::query()
UriQuery(u) == u.query

\* Scheme: TryFrom<&str>
SchemeTryFrom(s) ==
    IF \E i \in 1..Len(s) : s[i] \in SchemeForbidden
    THEN [ok |-> FALSE, val |-> <<>>, err |-> Some("InvalidScheme")]
    ELSE [ok |-> TRUE, val |-> s, err |-> None]

\* Authority: TryFrom<&str>
AuthorityTryFrom(s) ==
    IF s = <<>> THEN [ok |-> FALSE, val |-> <<>>, err |-> Some("Empty")]
    ELSE IF \E i \in 1..Len(s) : s[i] \in AuthorityForbidden
    THEN [ok |-> FALSE, val |-> <<>>, err |-> Some("InvalidUriChar")]
    ELSE IF Cardinality({i \in 1..Len(s) : s[i] = ":"}) > 1
    THEN [ok |-> FALSE, val |-> <<>>, err |-> Some("InvalidAuthority")]
    ELSE [ok |-> TRUE, val |-> s, err |-> None]

(***************************************************************************)
(* PathRewriter::rewrite_uri.  A request is [method, uri, headers, body,   *)
(* version].  The result carries the Result<(), HttpError>, the request as *)
(* the call leaves it, and the rule as the call leaves it.                 *)
(***************************************************************************)
\* the string handed to .path_and_query(..)
PathAndQueryArg(path, query) ==
    IF query # None THEN path \o <<"?">> \o query[1] ELSE path

\* RewriteUri, but the outgoing request is built anew around the new URI
\* (default method, no headers) instead of being edited in place
RewriteUri_NewRequest(rule, req, scheme, authority) ==
    LET path == RewriteOut(rule, UriPath(req.uri))
        built == UriBuild(scheme, authority,
                          PathAndQueryArg(path, UriQuery(req.uri)))
    IN  [ok |-> built.ok,
         err |-> built.err,
         req |-> IF built.ok
                 THEN [method |-> "GET", uri |-> built.uri, headers |-> <<>>,
                       body |-> req.body, version |-> req.version]
                 ELSE req,
         rule |-> RewriteState(rule)]

\* RewriteUri, but the rule is run a second time on the same path
RewriteUri_RewriteTwice(rule, req, scheme, authority) ==
    LET path == RewriteOut(rule, UriPath(req.uri))
        built == UriBuild(scheme, authority,
                          PathAndQueryArg(path, UriQuery(req.uri)))
    IN  [ok |-> built.ok,
         err |-> built.err,
         req |-> IF built.ok THEN [req EXCEPT !.uri = built.uri] ELSE req,
         rule |-> RewriteState(RewriteState(rule))]

\* RewriteUri, but the built URI is stored in the request before the result
\* of the build is looked at
RewriteUri_StoreFirst(rule, req, scheme, authority) ==
    LET path == RewriteOut(rule, UriPath(req.uri))
        built == UriBuild(scheme, authority,
                          PathAndQueryArg(path, UriQuery(req.uri)))
    IN  [ok |-> built.ok,
         err |-> built.err,
         req |-> [req EXCEPT !.uri = built.uri],
         rule |-> RewriteState(rule)]

RewriteUri(rule, req, scheme, authority) ==
    LET path == RewriteOut(rule, UriPath(req.uri))
        built == UriBuild(scheme, authority,
                          PathAndQueryArg(path, UriQuery(req.uri)))
    IN  [ok |-> built.ok,
         err |-> built.err,
         req |-> IF built.ok THEN [req EXCEPT !.uri = built.uri] ELSE req,
         rule |-> RewriteState(rule)]

(***************************************************************************)
(* Inputs.                                                                 *)
(***************************************************************************)
PathAlphabet == {"/", "a", "b"}

\* every string over PathAlphabet of length at most n
StrsUpTo(n) == UNION {[1..k -> PathAlphabet] : k \in 0..n}

\* stored paths of incoming URIs: empty (as in "https://test.com"), or '/'
\* followed by at most MaxPathLen characters
UriPaths == {<<>>} \cup {<<"/">> \o s : s \in StrsUpTo(MaxPathLen)}

\* queries of incoming URIs: none, empty ("/foo?"), and two non-empty ones
UriQueries == {None, Some(<<>>), Some(<<"k", "=", "v">>), Some(<<"a", "?", "b">>)}

IncomingUri(p, q) ==
    [scheme |-> Some(<<"h", "t", "t", "p", "s">>),
     authority |-> Some(<<"t", ".", "c">>), path |-> p, query |-> q]

\* the parts of a request other than its URI
ReqRests ==
    { [method |-> "GET", headers |-> <<>>, body |-> "", version |-> "HTTP/1.1"],
      [method |-> "POST", headers |-> << <<"content-type", "application/json">> >>,
       body |-> "test", version |-> "HTTP/2.0"] }

MkRequest(rest, uri) ==
    [method |-> rest.method, uri |-> uri, headers |-> rest.headers,
     body |-> rest.body, version |-> rest.version]

\* pattern and replacement strings given to the rules
Olds == {<<>>, <<"a">>, <<"/", "a">>, <<"a", "b">>}
News == {<<>>, <<"b">>, <<"/", "b", "?", "x">>, <<"?">>, <<"#", "x">>, <<" ">>}

UriRules ==
    {Identity}
    \cup {Static(v) : v \in News}
    \cup {ReplaceAll(o, v) : o \in Olds, v \in News}
    \cup {ReplaceN(o, v, k) : o \in Olds, v \in News, k \in 0..MaxN}
    \cup {TrimPrefix(o) : o \in Olds}
    \cup {TrimSuffix(o) : o \in Olds}
    \cup {AppendPrefix(v) : v \in News}
    \cup {AppendSuffix(v) : v \in News}
    \cup {[Func(<<"/", "a">>, v) EXCEPT !.n = k] : v \in News, k \in 0..1}

Http == <<"h", "t", "t", "p">>
Https == <<"h", "t", "t", "p", "s">>
\* a well-formed authority, host:port
GoodAuthority == <<"h", ":", "1">>

(***************************************************************************)
(* State.                                                                  *)
(*   builders : sequence of Builder {client, scheme, authority}            *)
(*   services : sequence of services {kind, client, scheme, authority,     *)
(*              path}                                                      *)
(*   futs     : sequence of RevProxyFuture, one per call                   *)
(*   net      : the requests handed to Client::request, in order           *)
(*   ret      : what the latest operation returned                         *)
(*   rw       : one application of rewrite_uri on its own (SpecUri)        *)
(*   arcs     : strong count of every Arc<Client> held by a builder or a   *)
(*              ReusedService; 0 once the client has been released         *)
(*   dropped  : the builders, services and futures that have been dropped  *)
(***************************************************************************)
NoRet == [op |-> "none"]

NoneDropped == [builders |-> {}, services |-> {}, futs |-> {}]

\* Arc::new
ArcNew(c) == arcs @@ (c :> 1)
\* <Arc as Clone>::clone
ArcClone(c) == [arcs EXCEPT ![c] = @ + 1]
\* <Arc as Drop>::drop: the client is released when the count reaches 0
ArcDrop(c) == [arcs EXCEPT ![c] = @ - 1]

InitMain ==
    /\ builders = <<>>
    /\ services = <<>>
    /\ futs = <<>>
    /\ net = <<>>
    /\ ret = NoRet
    /\ arcs = <<>>
    /\ dropped = NoneDropped

(***************************************************************************)
(* SpecUri: rewrite_uri as a function of (rule, request, target).          *)
(***************************************************************************)
InitUri ==
    /\ InitMain
    /\ rw \in {[phase |-> "in", rule |-> r, req |-> MkRequest(rest, IncomingUri(p, q)),
                scheme |-> Http, authority |-> GoodAuthority,
                res |-> [ok |-> FALSE]] :
                 r \in UriRules, rest \in ReqRests, p \in UriPaths, q \in UriQueries}

RewriteUriStep ==
    /\ rw.phase = "in"
    /\ rw' = [rw EXCEPT !.phase = "out",
                        !.res = RewriteUri(rw.rule, rw.req, rw.scheme, rw.authority)]
    /\ UNCHANGED <<builders, services, futs, net, ret, arcs, dropped>>

NextUri == RewriteUriStep

SpecUri == InitUri /\ [][NextUri]_vars

(***************************************************************************)
(* SpecRule: PathRewriter::rewrite of the string rules as a function of    *)
(* (rule, path).  rewrite takes any &str, not only URI paths.              *)
(***************************************************************************)
\* longest enumerated path given to a rule
MaxRuleLen == 4

FooFooBar == <<"/", "f", "o", "o", "/", "f", "o", "o", "/", "b", "a", "r">>
BarFooFoo == <<"/", "b", "a", "r", "/", "f", "o", "o", "/", "f", "o", "o">>
FooBar == <<"/", "f", "o", "o", "/", "b", "a", "r">>
BarFoo == <<"/", "b", "a", "r", "/", "f", "o", "o", "/">>

\* paths given to the rules: every short string, and those of the tests
RulePaths == StrsUpTo(MaxRuleLen) \cup {FooFooBar, BarFooFoo}

\* patterns and replacements given to the rules
RuleOlds ==
    {<<>>, <<"a">>, <<"/", "a">>, <<"a", "a">>, <<"f", "o", "o">>,
     <<"/", "f", "o", "o">>}
RuleNews == {<<>>, <<"b">>, <<"a", "a">>}

StrRules ==
    {ReplaceAll(o, v) : o \in RuleOlds, v \in RuleNews}
    \cup {ReplaceN(o, v, k) : o \in RuleOlds, v \in RuleNews, k \in 0..MaxN}
    \cup {TrimPrefix(o) : o \in RuleOlds}
    \cup {TrimSuffix(o) : o \in RuleOlds}

InitRule ==
    /\ InitMain
    /\ rw \in {[phase |-> "in", rule |-> r, path |-> p, out |-> <<>>] :
                 r \in StrRules, p \in RulePaths}

\* rule.rewrite(path)
RewriteStep ==
    /\ rw.phase = "in"
    /\ rw' = [rw EXCEPT !.phase = "out",
                        !.out = RewriteOut(rw.rule, rw.path),
                        !.rule = RewriteState(rw.rule)]
    /\ UNCHANGED <<builders, services, futs, net, ret, arcs, dropped>>

NextRule == RewriteStep

SpecRule == InitRule /\ [][NextRule]_vars

\* C1 (as claimed): whenever the incoming URI carries a query q and
\* rewrite_uri succeeds, the outgoing URI's query is q exactly, for every
\* rule, Static and Func with arbitrary output included.
C1_QueryPreserved ==
    (rw.phase = "out" /\ rw.res.ok /\ UriQuery(rw.req.uri) # None)
        => UriQuery(rw.res.req.uri) = UriQuery(rw.req.uri)

(***************************************************************************)
(* Constructors (oneshot.rs, reused.rs).  Each returns                     *)
(* Result<Self, HttpError>: [ok, err, val].  A scheme or authority that    *)
(* fails TryFrom becomes an http::Error of the InvalidUri class.           *)
(***************************************************************************)
HttpErrorOfUri(kind) == [class |-> "InvalidUri", kind |-> kind]

CtorErr(e) == [ok |-> FALSE, err |-> Some(HttpErrorOfUri(e[1])), val |-> <<>>]
CtorOk(v) == [ok |-> TRUE, err |-> None, val |-> Some(v)]

Service(kind, client, scheme, authority, path) ==
    [kind |-> kind, client |-> client, scheme |-> scheme,
     authority |-> authority, path |-> path]

\* OneshotService::from
OneshotFrom(client, scheme, authority, path) ==
    LET sc == SchemeTryFrom(scheme)
        au == AuthorityTryFrom(authority)
    IN  IF ~sc.ok THEN CtorErr(sc.err)
        ELSE IF ~au.ok THEN CtorErr(au.err)
        ELSE CtorOk(Service("oneshot", client, sc.val, au.val, path))

\* OneshotHttpDefault, but the authority is taken as given
OneshotHttpDefault_Unchecked(client, authority, path) ==
    CtorOk(Service("oneshot", client, Http, authority, path))

\* OneshotService::http_default
OneshotHttpDefault(client, authority, path) ==
    LET au == AuthorityTryFrom(authority)
    IN  IF ~au.ok THEN CtorErr(au.err)
        ELSE CtorOk(Service("oneshot", client, Http, au.val, path))

\* OneshotService::https_default
OneshotHttpsDefault(client, authority, path) ==
    LET au == AuthorityTryFrom(authority)
    IN  IF ~au.ok THEN CtorErr(au.err)
        ELSE CtorOk(Service("oneshot", client, Https, au.val, path))

\* ReusedService::from
ReusedFrom(client, scheme, authority, path) ==
    LET sc == SchemeTryFrom(scheme)
        au == AuthorityTryFrom(authority)
    IN  IF ~sc.ok THEN CtorErr(sc.err)
        ELSE IF ~au.ok THEN CtorErr(au.err)
        ELSE CtorOk(Service("reused", client, sc.val, au.val, path))

\* ReusedService::http_default
ReusedHttpDefault(client, authority, path) ==
    LET au == AuthorityTryFrom(authority)
    IN  IF ~au.ok THEN CtorErr(au.err)
        ELSE CtorOk(Service("reused", client, Http, au.val, path))

\* ReusedService::https_default
ReusedHttpsDefault(client, authority, path) ==
    LET au == AuthorityTryFrom(authority)
    IN  IF ~au.ok THEN CtorErr(au.err)
        ELSE CtorOk(Service("reused", client, Https, au.val, path))

\* reused::builder
BuilderFn(client, scheme, authority) ==
    LET sc == SchemeTryFrom(scheme)
        au == AuthorityTryFrom(authority)
    IN  IF ~sc.ok THEN CtorErr(sc.err)
        ELSE IF ~au.ok THEN CtorErr(au.err)
        ELSE CtorOk([client |-> client, scheme |-> sc.val, authority |-> au.val])

\* reused::builder_http
BuilderHttp(client, authority) == BuilderFn(client, Http, authority)

\* reused::builder_https (the source passes Scheme::HTTP here)
BuilderHttps(client, authority) == BuilderFn(client, Http, authority)

\* BuilderBuild, but the service is given the default scheme instead of the
\* builder's
BuilderBuild_DefaultScheme(b, path) ==
    Service("reused", b.client, Http, b.authority, path)

\* Builder::build
BuilderBuild(b, path) == Service("reused", b.client, b.scheme, b.authority, path)

(***************************************************************************)
(* RevProxyFuture (future.rs).                                             *)
(*   inner = Ok(ResponseFuture) : [tag |-> "Ok", op |-> [req, st, res]]    *)
(*   inner = Err(Option<HttpError>) : [tag |-> "Err", e |-> Option]        *)
(* The ResponseFuture op is "pending" until the client resolves it         *)
(* ("ready", res holds its Result), and "done" once a poll has taken the   *)
(* result.                                                                 *)
(***************************************************************************)
NoRes == [tag |-> "none"]

\* Client::request(req): the pending operation
ClientRequest(client, req) == [req |-> req, st |-> "pending", res |-> NoRes]

\* RevProxyFutureNew, but the request is handed to the client whatever
\* rewrite_uri returned
RevProxyFutureNew_AlwaysRequest(client, req, scheme, authority, path) ==
    LET r == RewriteUri(path, req, scheme, authority)
    IN  IF r.ok
        THEN [inner |-> [tag |-> "Ok", op |-> ClientRequest(client, r.req)],
              path |-> r.rule, sent |-> <<r.req>>]
        ELSE [inner |-> [tag |-> "Err", e |-> Some(r.err[1])],
              path |-> r.rule, sent |-> <<r.req>>]

\* RevProxyFuture::new: the future's inner, the rule as left by the call and
\* the requests handed to Client::request
RevProxyFutureNew(client, req, scheme, authority, path) ==
    LET r == RewriteUri(path, req, scheme, authority)
    IN  IF r.ok
        THEN [inner |-> [tag |-> "Ok", op |-> ClientRequest(client, r.req)],
              path |-> r.rule, sent |-> <<r.req>>]
        ELSE [inner |-> [tag |-> "Err", e |-> Some(r.err[1])],
              path |-> r.rule, sent |-> <<>>]

Pending == [tag |-> "Pending"]
\* Poll::Ready(outer(val)): outer is the variant of the outer Result
Ready(outer, val) == [tag |-> "Ready", outer |-> outer, val |-> val]
\* the poll did not return: it panicked
Panic(msg) == [tag |-> "Panic", msg |-> msg]

RespOk(resp) == [tag |-> "Ok", val |-> resp]
ErrInvalidUri(e) == [tag |-> "Err", val |-> [kind |-> "InvalidUri", diag |-> e]]
ErrRequestFailed(e) == [tag |-> "Err", val |-> [kind |-> "RequestFailed", diag |-> e]]

\* <ResponseFuture as Future>::poll: [op, out]; out is Pending, or the
\* operation's Result, or a panic when polled after it has completed
ResponseFuturePoll(op) ==
    CASE op.st = "pending" -> [op |-> op, out |-> Pending]
      [] op.st = "ready" -> [op |-> [op EXCEPT !.st = "done", !.res = NoRes],
                             out |-> [tag |-> "Ready", res |-> op.res]]
      [] op.st = "done" -> [op |-> op, out |-> Panic("polled after completion")]

\* MapErrRequestFailed, but the failure is wrapped in the other variant
MapErrRequestFailed_WrongKind(res) ==
    IF res.tag = "Ok" THEN RespOk(res.val) ELSE ErrInvalidUri(res.val)

\* res.map_err(Error::RequestFailed)
MapErrRequestFailed(res) ==
    IF res.tag = "Ok" THEN RespOk(res.val) ELSE ErrRequestFailed(res.val)

\* RevProxyFuturePoll, but a rewrite failure goes out as the outer Err
RevProxyFuturePoll_OuterErr(inner) ==
    IF inner.tag = "Ok"
    THEN LET p == ResponseFuturePoll(inner.op)
         IN  [inner |-> [inner EXCEPT !.op = p.op],
              out |-> IF p.out.tag = "Ready"
                      THEN Ready("Ok", MapErrRequestFailed(p.out.res))
                      ELSE p.out]
    ELSE IF inner.e # None
         THEN [inner |-> [inner EXCEPT !.e = None],
               out |-> Ready("Err", ErrInvalidUri(inner.e[1]))]
         ELSE [inner |-> inner,
               out |-> Panic("RevProxyFuture::poll() is called after ready")]

\* RevProxyFuturePoll, but the Err arm reads the error without taking it
RevProxyFuturePoll_NoTake(inner) ==
    IF inner.tag = "Ok"
    THEN LET p == ResponseFuturePoll(inner.op)
         IN  [inner |-> [inner EXCEPT !.op = p.op],
              out |-> IF p.out.tag = "Ready"
                      THEN Ready("Ok", MapErrRequestFailed(p.out.res))
                      ELSE p.out]
    ELSE IF inner.e # None
         THEN [inner |-> inner,
               out |-> Ready("Ok", ErrInvalidUri(inner.e[1]))]
         ELSE [inner |-> inner,
               out |-> Panic("RevProxyFuture::poll() is called after ready")]

\* RevProxyFuturePoll, but the Err arm answers Pending while it still holds
\* the error
RevProxyFuturePoll_ErrPending(inner) ==
    IF inner.tag = "Ok"
    THEN LET p == ResponseFuturePoll(inner.op)
         IN  [inner |-> [inner EXCEPT !.op = p.op],
              out |-> IF p.out.tag = "Ready"
                      THEN Ready("Ok", MapErrRequestFailed(p.out.res))
                      ELSE p.out]
    ELSE IF inner.e # None
         THEN [inner |-> inner, out |-> Pending]
         ELSE [inner |-> inner,
               out |-> Panic("RevProxyFuture::poll() is called after ready")]

\* RevProxyFuturePoll, but the captured rebuild error is reported as a
\* failed request
RevProxyFuturePoll_ErrAsRequestFailed(inner) ==
    IF inner.tag = "Ok"
    THEN LET p == ResponseFuturePoll(inner.op)
         IN  [inner |-> [inner EXCEPT !.op = p.op],
              out |-> IF p.out.tag = "Ready"
                      THEN Ready("Ok", MapErrRequestFailed(p.out.res))
                      ELSE p.out]
    ELSE IF inner.e # None
         THEN [inner |-> [inner EXCEPT !.e = None],
               out |-> Ready("Ok", ErrRequestFailed(inner.e[1]))]
         ELSE [inner |-> inner,
               out |-> Panic("RevProxyFuture::poll() is called after ready")]

\* <RevProxyFuture as Future>::poll: [inner, out]
RevProxyFuturePoll(inner) ==
    IF inner.tag = "Ok"
    THEN LET p == ResponseFuturePoll(inner.op)
         IN  [inner |-> [inner EXCEPT !.op = p.op],
              out |-> IF p.out.tag = "Ready"
                      THEN Ready("Ok", MapErrRequestFailed(p.out.res))
                      ELSE p.out]
    ELSE IF inner.e # None
         THEN [inner |-> [inner EXCEPT !.e = None],
               out |-> Ready("Ok", ErrInvalidUri(inner.e[1]))]
         ELSE [inner |-> inner,
               out |-> Panic("RevProxyFuture::poll() is called after ready")]

(***************************************************************************)
(* Inputs of the service state machine.                                    *)
(***************************************************************************)
Foo == <<"f", "o", "o">>
Baz == <<"b", "a", "z">>
FooBarFoo == <<"/", "f", "o", "o", "/", "b", "a", "r", "/", "f", "o", "o">>
BazBarBaz == <<"/", "b", "a", "z", "/", "b", "a", "r", "/", "b", "a", "z">>
BazBarFoo == <<"/", "b", "a", "z", "/", "b", "a", "r", "/", "f", "o", "o">>

\* rules given to the constructors and to Builder::build; the closure of the
\* Func rule returns "/a " (not a URI path) on its even calls and "/b?x" on
\* its odd calls
MainRules ==
    { ReplaceAll(Foo, Baz), ReplaceN(Foo, Baz, 1),
      Func(<<"/", "a", " ">>, <<"/", "b", "?", "x">>) }

\* scheme and authority arguments, well-formed and malformed
SchemeInputs == {Http, Https, <<"h", " ", "p">>}
AuthorityInputs == {GoodAuthority, <<>>, <<"h", " ", "1">>}

\* incoming requests
MainRequests ==
    { [method |-> "GET", uri |-> IncomingUri(FooBarFoo, None),
       headers |-> <<>>, body |-> "", version |-> "HTTP/1.1"],
      [method |-> "POST", uri |-> IncomingUri(FooBarFoo, Some(<<"k", "=", "v">>)),
       headers |-> << <<"content-type", "application/x-www-form-urlencoded">> >>,
       body |-> "key=value", version |-> "HTTP/1.1"] }

\* what the network client resolves a pending operation to
NetResults ==
    { [tag |-> "Ok", val |-> [status |-> "200 OK", body |-> "ok"]],
      [tag |-> "Err", val |-> "connection refused"] }

\* a client made for one service or one builder
OwnClient(n) == <<"client of service", n>>
BuilderClient(n) == <<"client of builder", n>>

(***************************************************************************)
(* Actions: one per constructor, per Service::call, per poll, and the      *)
(* network client resolving a pending operation.                           *)
(***************************************************************************)
\* what a constructor returned
CtorRet(fn, schemeArg, authorityArg, res) ==
    [op |-> "ctor", fn |-> fn, scheme |-> schemeArg, authority |-> authorityArg,
     ok |-> res.ok, err |-> res.err,
     before |-> [services |-> services, builders |-> builders]]

\* a constructor that returns a service
ServiceCtor(fn, schemeArg, authorityArg, res) ==
    /\ services' = IF res.ok THEN Append(services, res.val[1]) ELSE services
    /\ ret' = CtorRet(fn, schemeArg, authorityArg, res)
    /\ arcs' = IF res.ok /\ res.val[1].kind = "reused"
               THEN ArcNew(res.val[1].client) ELSE arcs
    /\ UNCHANGED <<builders, futs, net, rw, dropped>>

\* a constructor that returns a builder
BuilderCtor(fn, schemeArg, authorityArg, res) ==
    /\ builders' = IF res.ok THEN Append(builders, res.val[1]) ELSE builders
    /\ ret' = CtorRet(fn, schemeArg, authorityArg, res)
    /\ arcs' = IF res.ok THEN ArcNew(res.val[1].client) ELSE arcs
    /\ UNCHANGED <<services, futs, net, rw, dropped>>

NewOwnClient == OwnClient(Len(services) + 1)
NewBuilderClient == BuilderClient(Len(builders) + 1)

DoOneshotFrom ==
    /\ Len(services) < MaxSvc
    /\ \E s \in SchemeInputs, a \in AuthorityInputs, r \in MainRules :
          ServiceCtor("OneshotService::from", Some(s), a,
                      OneshotFrom(NewOwnClient, s, a, r))

DoOneshotHttpDefault ==
    /\ Len(services) < MaxSvc
    /\ \E a \in AuthorityInputs, r \in MainRules :
          ServiceCtor("OneshotService::http_default", None, a,
                      OneshotHttpDefault(NewOwnClient, a, r))

DoOneshotHttpsDefault ==
    /\ Len(services) < MaxSvc
    /\ \E a \in AuthorityInputs, r \in MainRules :
          ServiceCtor("OneshotService::https_default", None, a,
                      OneshotHttpsDefault(NewOwnClient, a, r))

DoReusedFrom ==
    /\ Len(services) < MaxSvc
    /\ \E s \in SchemeInputs, a \in AuthorityInputs, r \in MainRules :
          ServiceCtor("ReusedService::from", Some(s), a,
                      ReusedFrom(NewOwnClient, s, a, r))

DoReusedHttpDefault ==
    /\ Len(services) < MaxSvc
    /\ \E a \in AuthorityInputs, r \in MainRules :
          ServiceCtor("ReusedService::http_default", None, a,
                      ReusedHttpDefault(NewOwnClient, a, r))

DoReusedHttpsDefault ==
    /\ Len(services) < MaxSvc
    /\ \E a \in AuthorityInputs, r \in MainRules :
          ServiceCtor("ReusedService::https_default", None, a,
                      ReusedHttpsDefault(NewOwnClient, a, r))

DoBuilder ==
    /\ Len(builders) < MaxBuilders
    /\ \E s \in SchemeInputs, a \in AuthorityInputs :
          BuilderCtor("builder", Some(s), a, BuilderFn(NewBuilderClient, s, a))

DoBuilderHttp ==
    /\ Len(builders) < MaxBuilders
    /\ \E a \in AuthorityInputs :
          BuilderCtor("builder_http", None, a, BuilderHttp(NewBuilderClient, a))

DoBuilderHttps ==
    /\ Len(builders) < MaxBuilders
    /\ \E a \in AuthorityInputs :
          BuilderCtor("builder_https", None, a, BuilderHttps(NewBuilderClient, a))

DoBuild ==
    /\ Len(services) < MaxSvc
    /\ \E b \in DOMAIN builders \ dropped.builders, r \in MainRules :
          /\ services' = Append(services, BuilderBuild(builders[b], r))
          /\ arcs' = ArcClone(builders[b].client)
          /\ ret' = NoRet
          /\ UNCHANGED <<builders, futs, net, rw, dropped>>

\* ServiceCall, but every service rewrites with the rule of the first one
ServiceCall_SharedRule(s, req) ==
    LET svc == services[s]
        new == RevProxyFutureNew(svc.client, req, svc.scheme, svc.authority,
                                 services[1].path)
        id == Len(futs) + 1
    IN  /\ futs' = Append(futs, [svc |-> s, req |-> req, rule |-> svc.path,
                                 inner |-> new.inner, last |-> None, nReady |-> 0])
        /\ services' = [services EXCEPT ![1].path = new.path]
        /\ net' = net \o [k \in 1..Len(new.sent) |-> [fut |-> id, req |-> new.sent[k]]]
        /\ ret' = NoRet
        /\ UNCHANGED <<builders, rw, arcs, dropped>>

\* ServiceCall, but the rule is cloned for the call and the clone rewrites
ServiceCall_RuleCopy(s, req) ==
    LET svc == services[s]
        new == RevProxyFutureNew(svc.client, req, svc.scheme, svc.authority, svc.path)
        id == Len(futs) + 1
    IN  /\ futs' = Append(futs, [svc |-> s, req |-> req, rule |-> svc.path,
                                 inner |-> new.inner, last |-> None, nReady |-> 0])
        /\ net' = net \o [k \in 1..Len(new.sent) |-> [fut |-> id, req |-> new.sent[k]]]
        /\ ret' = NoRet
        /\ UNCHANGED <<builders, services, rw, arcs, dropped>>

\* <OneshotService / ReusedService as Service>::call on service s
ServiceCall(s, req) ==
    LET svc == services[s]
        new == RevProxyFutureNew(svc.client, req, svc.scheme, svc.authority, svc.path)
        id == Len(futs) + 1
    IN  /\ futs' = Append(futs, [svc |-> s, req |-> req, rule |-> svc.path,
                                 inner |-> new.inner, last |-> None, nReady |-> 0])
        /\ services' = [services EXCEPT ![s].path = new.path]
        /\ net' = net \o [k \in 1..Len(new.sent) |-> [fut |-> id, req |-> new.sent[k]]]
        /\ ret' = NoRet
        /\ UNCHANGED <<builders, rw, arcs, dropped>>

OneshotCall ==
    /\ Len(futs) < MaxCalls
    /\ \E s \in DOMAIN services \ dropped.services, req \in MainRequests :
          services[s].kind = "oneshot" /\ ServiceCall(s, req)

ReusedCall ==
    /\ Len(futs) < MaxCalls
    /\ \E s \in DOMAIN services \ dropped.services, req \in MainRequests :
          services[s].kind = "reused" /\ ServiceCall(s, req)

\* Poll, but a failed completion hands the request to the client again
Poll_Retry ==
    \E i \in DOMAIN futs \ dropped.futs :
        /\ futs[i].nReady < MaxReady
        /\ LET p == RevProxyFuturePoll(futs[i].inner)
               failed == p.out.tag = "Ready" /\ p.out.val.tag = "Err"
                             /\ p.out.val.val.kind = "RequestFailed"
           IN  /\ futs' = [futs EXCEPT ![i].inner = p.inner,
                                        ![i].last = Some(p.out),
                                        ![i].nReady = @ + (IF p.out.tag = "Ready" THEN 1 ELSE 0)]
               /\ net' = IF failed
                         THEN Append(net, [fut |-> i, req |-> futs[i].inner.op.req])
                         ELSE net
        /\ ret' = NoRet
        /\ UNCHANGED <<builders, services, rw, arcs, dropped>>

\* the caller polls future i
Poll ==
    \E i \in DOMAIN futs \ dropped.futs :
        /\ futs[i].nReady < MaxReady
        /\ LET p == RevProxyFuturePoll(futs[i].inner)
           IN  futs' = [futs EXCEPT ![i].inner = p.inner,
                                    ![i].last = Some(p.out),
                                    ![i].nReady = @ + (IF p.out.tag = "Ready" THEN 1 ELSE 0)]
        /\ ret' = NoRet
        /\ UNCHANGED <<builders, services, net, rw, arcs, dropped>>

\* the network client resolves the pending operation of future i
NetComplete ==
    \E i \in DOMAIN futs, res \in NetResults :
        /\ futs[i].inner.tag = "Ok"
        /\ futs[i].inner.op.st = "pending"
        /\ futs' = [futs EXCEPT ![i].inner.op.st = "ready", ![i].inner.op.res = res]
        /\ ret' = NoRet
        /\ UNCHANGED <<builders, services, net, rw, arcs, dropped>>

\* OneshotServicePollReady, but the service reports itself busy
OneshotServicePollReady_Busy(svc) == [svc |-> svc, out |-> Pending]

\* <OneshotService as Service>::poll_ready: the service as the call leaves
\* it and the value returned
OneshotServicePollReady(svc) == [svc |-> svc, out |-> Ready("Ok", "()")]

\* <ReusedService as Service>::poll_ready
ReusedServicePollReady(svc) == [svc |-> svc, out |-> Ready("Ok", "()")]

\* the caller asks service s whether it is ready
ServicePollReady(s, r) ==
    /\ services' = [services EXCEPT ![s] = r.svc]
    /\ ret' = [op |-> "poll_ready", svc |-> s, out |-> r.out]
    /\ UNCHANGED <<builders, futs, net, rw, arcs, dropped>>

OneshotPollReady ==
    \E s \in DOMAIN services \ dropped.services :
        /\ services[s].kind = "oneshot"
        /\ ServicePollReady(s, OneshotServicePollReady(services[s]))

ReusedPollReady ==
    \E s \in DOMAIN services \ dropped.services :
        /\ services[s].kind = "reused"
        /\ ServicePollReady(s, ReusedServicePollReady(services[s]))

\* RevProxyFutureDrop, but the pending operation outlives the future
RevProxyFutureDrop_Leak(inner) == inner

\* drop glue of RevProxyFuture: its field inner is dropped, and with it the
\* ResponseFuture (the pending operation) or the captured error it holds
RevProxyFutureDrop(inner) ==
    IF inner.tag = "Ok"
    THEN [inner EXCEPT !.op.st = "dropped", !.op.res = NoRes]
    ELSE [inner EXCEPT !.e = None]

\* the caller drops future i
DropFuture ==
    \E i \in DOMAIN futs \ dropped.futs :
        /\ futs' = [futs EXCEPT ![i].inner = RevProxyFutureDrop(@)]
        /\ dropped' = [dropped EXCEPT !.futs = @ \cup {i}]
        /\ ret' = NoRet
        /\ UNCHANGED <<builders, services, net, rw, arcs>>

\* ReusedServiceClone, but the client handle is copied without being counted
ReusedServiceClone_Uncounted(svc) == [svc |-> svc, arcs |-> arcs]

\* <ReusedService as Clone>::clone: the new service and the strong counts
\* after self.client.clone()
ReusedServiceClone(svc) == [svc |-> svc, arcs |-> ArcClone(svc.client)]

\* drop glue of a service: a ReusedService drops its Arc<Client>, a
\* OneshotService the client it owns (which no Arc counts)
ServiceDrop(svc) == IF svc.kind = "reused" THEN ArcDrop(svc.client) ELSE arcs

\* drop glue of a Builder
BuilderDrop(b) == ArcDrop(b.client)

\* the caller clones the ReusedService s
CloneService ==
    /\ Len(services) < MaxSvc
    /\ \E s \in DOMAIN services \ dropped.services :
          /\ services[s].kind = "reused"
          /\ IsClone(services[s].path)
          /\ LET c == ReusedServiceClone(services[s])
             IN  services' = Append(services, c.svc) /\ arcs' = c.arcs
          /\ ret' = NoRet
          /\ UNCHANGED <<builders, futs, net, rw, dropped>>

\* the caller drops service s
DropService ==
    \E s \in DOMAIN services \ dropped.services :
        /\ arcs' = ServiceDrop(services[s])
        /\ dropped' = [dropped EXCEPT !.services = @ \cup {s}]
        /\ ret' = NoRet
        /\ UNCHANGED <<builders, services, futs, net, rw>>

\* the caller drops builder b
DropBuilder ==
    \E b \in DOMAIN builders \ dropped.builders :
        /\ arcs' = BuilderDrop(builders[b])
        /\ dropped' = [dropped EXCEPT !.builders = @ \cup {b}]
        /\ ret' = NoRet
        /\ UNCHANGED <<builders, services, futs, net, rw>>

Init == InitMain /\ rw = [phase |-> "idle"]

(***************************************************************************)
(* Spec: services in use.  A builder made by builder_http, services minted *)
(* from it, services that own their client, their calls, the polls of the  *)
(* futures and the network client completing the pending operations.       *)
(***************************************************************************)
Next ==
    \/ DoBuilderHttp
    \/ DoBuild
    \/ DoOneshotHttpDefault
    \/ OneshotCall
    \/ ReusedCall
    \/ Poll
    \/ NetComplete

Spec == Init /\ [][Next]_vars

(***************************************************************************)
(* SpecCtor: every constructor, Builder::build, and calls on what was      *)
(* constructed.                                                            *)
(***************************************************************************)
NextCtor ==
    \/ DoOneshotFrom
    \/ DoOneshotHttpDefault
    \/ DoOneshotHttpsDefault
    \/ DoReusedFrom
    \/ DoReusedHttpDefault
    \/ DoReusedHttpsDefault
    \/ DoBuilder
    \/ DoBuilderHttp
    \/ DoBuilderHttps
    \/ DoBuild
    \/ OneshotCall
    \/ ReusedCall

SpecCtor == Init /\ [][NextCtor]_vars

(***************************************************************************)
(* SpecDrop: Spec, and the caller may also ask a service whether it is     *)
(* ready and may drop a future at any point of its life.                   *)
(***************************************************************************)
NextDrop ==
    \/ DoBuilderHttp
    \/ DoBuild
    \/ DoOneshotHttpDefault
    \/ OneshotCall
    \/ ReusedCall
    \/ Poll
    \/ NetComplete
    \/ OneshotPollReady
    \/ ReusedPollReady
    \/ DropFuture

SpecDrop == Init /\ [][NextDrop]_vars

(***************************************************************************)
(* SpecLife: ownership of the shared client.  Builders, services minted    *)
(* from them or made around an Arc of their own, clones of services, and   *)
(* drops of services and builders in any order.                            *)
(***************************************************************************)
NextLife ==
    \/ DoBuilderHttp
    \/ DoBuild
    \/ DoReusedHttpDefault
    \/ CloneService
    \/ DropService
    \/ DropBuilder

SpecLife == Init /\ [][NextLife]_vars

(***************************************************************************)
(* SpecFail: calls whose rewrite fails.  Services and their calls, next to *)
(* one application of rewrite_uri on a request and a rule of the kind the  *)
(* services are given, so that the request a failed rewrite_uri leaves     *)
(* behind (dropped inside RevProxyFuture::new) can be looked at.           *)
(***************************************************************************)
InitFail ==
    /\ InitMain
    /\ rw \in {[phase |-> "in", rule |-> r, req |-> req,
                scheme |-> Http, authority |-> GoodAuthority,
                res |-> [ok |-> FALSE]] : r \in MainRules, req \in MainRequests}

NextFail ==
    \/ DoBuilderHttp
    \/ DoBuild
    \/ DoOneshotHttpDefault
    \/ OneshotCall
    \/ ReusedCall
    \/ RewriteUriStep

SpecFail == InitFail /\ [][NextFail]_vars

(***************************************************************************)
(* Properties.                                                             *)
(***************************************************************************)
\* the entries of net made for future i
Dispatches(i) == {k \in DOMAIN net : net[k].fut = i}

\* the URI of the request handed to the client for future i, if any
SentUri(i) ==
    IF Dispatches(i) = {} THEN None
    ELSE Some(net[CHOOSE k \in Dispatches(i) : TRUE].req.uri)

\* what the rule of future f's call returned for the incoming path
Rewritten(f) == RewriteOut(f.rule, UriPath(f.req.uri))

\* the rewritten path, with the incoming query, is not a URI path-and-query
RebuildFails(f) ==
    ~ParsePathAndQuery(PathAndQueryArg(Rewritten(f), UriQuery(f.req.uri))).ok

\* the latest poll of f returned Ready
LastReady(f) == f.last # None /\ f.last[1].tag = "Ready"

\* the latest poll of f panicked
LastPanic(f) == f.last # None /\ f.last[1].tag = "Panic"

\* the future holds nothing more to give
Terminal(inner) ==
    IF inner.tag = "Ok" THEN inner.op.st = "done" ELSE inner.e = None

\* C2: outer totality.  Every poll that returns Ready returns the outer Ok;
\* rewrite failure, dispatch failure and success are the inner tagged value.
C2_OuterTotality ==
    \A i \in DOMAIN futs :
        LastReady(futs[i]) =>
            LET out == futs[i].last[1]
            IN  /\ out.outer = "Ok"
                /\ out.val.tag \in {"Ok", "Err"}
                /\ out.val.tag = "Err" =>
                       out.val.val.kind \in {"InvalidUri", "RequestFailed"}

\* C2 witness: one future surfaced a rewrite failure and another a dispatch
\* failure, both as Ready values.
C2_Witness ==
    \E i, j \in DOMAIN futs :
        /\ LastReady(futs[i]) /\ futs[i].last[1].val.tag = "Err"
        /\ futs[i].last[1].val.val.kind = "InvalidUri"
        /\ LastReady(futs[j]) /\ futs[j].last[1].val.tag = "Err"
        /\ futs[j].last[1].val.val.kind = "RequestFailed"

\* C3: when the rewritten path does not form a valid URI, the call result is
\* error(InvalidUri) and Client::request is never invoked for that call.
C3_InvalidUriNoDispatch ==
    \A i \in DOMAIN futs :
        RebuildFails(futs[i]) =>
            /\ Dispatches(i) = {}
            /\ futs[i].inner.tag = "Err"
            /\ LastReady(futs[i]) =>
                   /\ futs[i].last[1].val.tag = "Err"
                   /\ futs[i].last[1].val.val.kind = "InvalidUri"

\* C3 witness: a call whose rebuild failed has been polled to its result,
\* and a later call on the same service was dispatched.
C3_Witness ==
    \E i, j \in DOMAIN futs :
        /\ i < j /\ futs[i].svc = futs[j].svc
        /\ RebuildFails(futs[i]) /\ LastReady(futs[i])
        /\ Dispatches(j) # {}

\* C4: at most one poll of a future returns Ready; once one has, the future
\* is terminal and a later poll yields no value (it panics) and restarts
\* nothing.  Both on the rewrite-failed path and on the dispatch path.
C4_SingleCompletion ==
    \A i \in DOMAIN futs :
        LET f == futs[i]
        IN  /\ f.nReady <= 1
            /\ f.nReady = 1 => Terminal(f.inner) /\ (LastReady(f) \/ LastPanic(f))
            /\ f.nReady = 0 => ~Terminal(f.inner)
            /\ Cardinality(Dispatches(i)) <= 1

\* C4 witness: a rewrite-failed future and a dispatched future have both
\* been polled again after their Ready.
C4_Witness ==
    \E i, j \in DOMAIN futs :
        /\ futs[i].inner.tag = "Err" /\ futs[i].nReady = 1 /\ LastPanic(futs[i])
        /\ futs[j].inner.tag = "Ok" /\ futs[j].nReady = 1 /\ LastPanic(futs[j])

\* C5: after a failed rebuild the first poll returns Ready, never Pending,
\* carrying error(InvalidUri) with the error captured at construction; a
\* second poll returns no value.
C5_RewriteFailedFirstPoll ==
    \A i \in DOMAIN futs :
        LET f == futs[i]
            svc == services[f.svc]
            captured == RewriteUri(f.rule, f.req, svc.scheme, svc.authority).err
        IN  f.inner.tag = "Err" =>
                /\ f.last = None => f.inner.e = captured /\ f.nReady = 0
                /\ f.last # None =>
                       /\ f.inner.e = None
                       /\ f.nReady = 1
                       /\ LastReady(f) \/ LastPanic(f)
                       /\ LastReady(f) =>
                              f.last[1] = Ready("Ok", ErrInvalidUri(captured[1]))

\* C5 witness: a rewrite-failed future polled twice.
C5_Witness ==
    \E i \in DOMAIN futs :
        futs[i].inner.tag = "Err" /\ futs[i].nReady = 1 /\ LastPanic(futs[i])

\* C6: on the dispatch path a poll returns Pending exactly when the pending
\* operation is pending, and then leaves the future unchanged; it maps the
\* operation's success to the response unchanged and its failure to
\* error(RequestFailed) with the operation's diagnostic.
C6_DispatchDelegates ==
    [][\A i \in DOMAIN futs :
          (futs[i].inner.tag = "Ok" /\ futs'[i].last # futs[i].last) =>
              LET op == futs[i].inner.op
                  out == futs'[i].last[1]
              IN  /\ out.tag = "Pending" <=> op.st = "pending"
                  /\ op.st = "pending" => futs'[i].inner = futs[i].inner
                  /\ (op.st = "ready" /\ op.res.tag = "Ok") =>
                         out = Ready("Ok", RespOk(op.res.val))
                  /\ (op.st = "ready" /\ op.res.tag = "Err") =>
                         out = Ready("Ok", ErrRequestFailed(op.res.val))]_vars

\* C6 witness: one dispatched future returned the response, another the
\* RequestFailed error.
C6_Witness ==
    \E i, j \in DOMAIN futs :
        /\ futs[i].inner.tag = "Ok" /\ LastReady(futs[i])
        /\ futs[i].last[1].val.tag = "Ok"
        /\ futs[j].inner.tag = "Ok" /\ LastReady(futs[j])
        /\ futs[j].last[1].val.tag = "Err"

\* the characters of a string
Chars(str) == {str[k] : k \in DOMAIN str}

\* a scheme argument no URI scheme can be made of
MalformedScheme(str) == Chars(str) \cap SchemeForbidden # {}

\* an authority argument no URI authority can be made of
MalformedAuthority(str) == str = <<>> \/ Chars(str) \cap AuthorityForbidden # {}

\* the arguments of the constructor call recorded in ret are malformed
MalformedTarget ==
    \/ ret.scheme # None /\ MalformedScheme(ret.scheme[1])
    \/ MalformedAuthority(ret.authority)

\* C7: every constructor validates the scheme and authority at
\* construction: malformed input fails with an InvalidUri-class error and
\* produces no instance, well-formed input succeeds, and no call on a
\* constructed service fails because of the target descriptor.
C7_ConstructorsValidate ==
    /\ ret.op = "ctor" =>
           /\ ret.ok <=> ~MalformedTarget
           /\ ~ret.ok =>
                  /\ ret.err # None /\ ret.err[1].class = "InvalidUri"
                  /\ services = ret.before.services
                  /\ builders = ret.before.builders
    /\ \A s \in DOMAIN services :
           ~MalformedScheme(services[s].scheme)
               /\ ~MalformedAuthority(services[s].authority)
    /\ \A b \in DOMAIN builders :
           ~MalformedScheme(builders[b].scheme)
               /\ ~MalformedAuthority(builders[b].authority)
    /\ \A i \in DOMAIN futs :
           futs[i].inner.tag = "Err" => RebuildFails(futs[i])

\* C7 witness: a constructor has just rejected a malformed target while a
\* service constructed earlier has had a call dispatched.
C7_Witness ==
    /\ ret.op = "ctor" /\ ~ret.ok /\ MalformedTarget
    /\ services # <<>>
    /\ \E i \in DOMAIN futs : futs[i].inner.tag = "Ok" /\ Dispatches(i) # {}

\* the service was minted by the builder
Minted(s) == \E b \in DOMAIN builders : services[s].client = builders[b].client

\* C8: two services minted from one builder, one with ReplaceAll("foo",
\* "baz") and one with ReplaceFirstN("foo", "baz", 1), send /foo/bar/foo as
\* /baz/bar/baz and /baz/bar/foo respectively, whatever else has been
\* called in between; the outgoing URI depends only on the call's own rule,
\* target and incoming URI.
C8_IndependentServices ==
    /\ \A i \in DOMAIN futs :
           LET f == futs[i]
           IN  (Minted(f.svc) /\ UriPath(f.req.uri) = FooBarFoo) =>
                   /\ f.rule = ReplaceAll(Foo, Baz) =>
                          /\ SentUri(i) # None
                          /\ UriPath(SentUri(i)[1]) = BazBarBaz
                   /\ f.rule = ReplaceN(Foo, Baz, 1) =>
                          /\ SentUri(i) # None
                          /\ UriPath(SentUri(i)[1]) = BazBarFoo
    /\ \A i, j \in DOMAIN futs :
           (/\ futs[i].rule = futs[j].rule
            /\ futs[i].req.uri = futs[j].req.uri
            /\ services[futs[i].svc].scheme = services[futs[j].svc].scheme
            /\ services[futs[i].svc].authority = services[futs[j].svc].authority)
               => SentUri(i) = SentUri(j)

\* C8 witness: two distinct services minted by the same builder, one per
\* rule, have each had /foo/bar/foo dispatched.
C8_Witness ==
    \E i, j \in DOMAIN futs :
        /\ futs[i].svc # futs[j].svc
        /\ Minted(futs[i].svc) /\ Minted(futs[j].svc)
        /\ services[futs[i].svc].client = services[futs[j].svc].client
        /\ futs[i].rule = ReplaceAll(Foo, Baz)
        /\ futs[j].rule = ReplaceN(Foo, Baz, 1)
        /\ SentUri(i) # None /\ UriPath(SentUri(i)[1]) = BazBarBaz
        /\ SentUri(j) # None /\ UriPath(SentUri(j)[1]) = BazBarFoo

\* C9 (as claimed): the request handed to the client has the scheme and
\* authority of the service's target descriptor, and its path is the
\* rewrite result.
C9_TargetAndPath ==
    \A i \in DOMAIN futs :
        SentUri(i) # None =>
            LET u == SentUri(i)[1]
                svc == services[futs[i].svc]
            IN  /\ u.scheme = Some(svc.scheme)
                /\ u.authority = Some(svc.authority)
                /\ UriPath(u) = Rewritten(futs[i])

\* C10: the request handed to the client has the method, headers, body and
\* version of the incoming request; only the URI is replaced.
C10_OnlyUriChanges ==
    \A k \in DOMAIN net :
        LET in == futs[net[k].fut].req
            out == net[k].req
        IN  /\ out.method = in.method
            /\ out.headers = in.headers
            /\ out.body = in.body
            /\ out.version = in.version

\* C10 witness: the POST request with a header and a body was dispatched
\* with a rewritten URI.
C10_Witness ==
    \E k \in DOMAIN net :
        /\ net[k].req.method = "POST"
        /\ net[k].req.headers # <<>>
        /\ net[k].req.uri # futs[net[k].fut].req.uri

\* C11: no internal retries.  A call whose rebuild succeeds hands exactly
\* one request to the client, at the construction of its future; a call
\* whose rebuild fails hands none; and no step other than a call (a poll,
\* Pending or not, repeated or not, a completion, failed or not) adds one.
C11_NoRetries ==
    /\ [](\A i \in DOMAIN futs :
            Cardinality(Dispatches(i)) = IF futs[i].inner.tag = "Ok" THEN 1 ELSE 0)
    /\ [][Len(futs') = Len(futs) => net' = net]_vars

\* C11 witness: a dispatched future was polled to a failed completion and
\* polled again, and its request is still the only one handed to the client
\* for it.
C11_Witness ==
    \E i \in DOMAIN futs :
        /\ futs[i].inner.tag = "Ok" /\ futs[i].nReady = 1 /\ LastPanic(futs[i])
        /\ Cardinality(Dispatches(i)) = 1
        /\ \E j \in DOMAIN futs :
              /\ LastReady(futs[j]) /\ futs[j].last[1].val.tag = "Err"
              /\ futs[j].last[1].val.val.kind = "RequestFailed"
              /\ Cardinality(Dispatches(j)) = 1

\* C12: both service variants are always immediately ready.  Every
\* poll_ready returns Ready(Ok(())), whatever the futures of earlier calls
\* are doing, and changes nothing: not the service, not any other state.
C12_AlwaysReady ==
    [][ret'.op = "poll_ready" =>
          /\ ret'.out = Ready("Ok", "()")
          /\ ret'.svc \in DOMAIN services \ dropped.services
          /\ UNCHANGED <<builders, services, futs, net, arcs, dropped>>]_vars

\* C12 witness: poll_ready has just returned on a service one of whose
\* futures is still pending while another completed with an error and was
\* then dropped.
C12_Witness ==
    /\ ret.op = "poll_ready"
    /\ ret.out = Ready("Ok", "()")
    /\ \E i, j \in DOMAIN futs :
          /\ futs[i].svc = ret.svc /\ futs[j].svc = ret.svc
          /\ i \notin dropped.futs
          /\ futs[i].inner.tag = "Ok" /\ futs[i].inner.op.st = "pending"
          /\ j \in dropped.futs
          /\ LastReady(futs[j]) /\ futs[j].last[1].val.tag = "Err"

\* the live services that hold client c
LiveServicesOf(c) ==
    {s \in DOMAIN services \ dropped.services :
        services[s].kind = "reused" /\ services[s].client = c}

\* the live builders that hold client c
LiveBuildersOf(c) ==
    {b \in DOMAIN builders \ dropped.builders : builders[b].client = c}

\* some service has held client c
HadService(c) ==
    \E s \in DOMAIN services : services[s].kind = "reused" /\ services[s].client = c

\* C13 (as claimed): once the last service sharing a client has been
\* dropped the client is released, and it is not released while a service
\* sharing it is alive.
C13_ReleasedWithLastService ==
    \A c \in DOMAIN arcs :
        HadService(c) => (arcs[c] = 0 <=> LiveServicesOf(c) = {})

\* C13 (amended): the strong count of a shared client is the number of its
\* live owners, services and builders alike; so the client is released
\* exactly when the last of them has been dropped, and never while a
\* service or a builder holding it is alive.
C13_ReleasedWithLastOwner ==
    \A c \in DOMAIN arcs :
        /\ arcs[c] = Cardinality(LiveServicesOf(c)) + Cardinality(LiveBuildersOf(c))
        /\ arcs[c] = 0 <=> (LiveServicesOf(c) = {} /\ LiveBuildersOf(c) = {})

\* C13 witness: a client shared by a builder, a service minted from it and
\* a clone of that service has been released by the drop of all three.
C13_Witness ==
    \E c \in DOMAIN arcs :
        /\ arcs[c] = 0
        /\ \E b \in dropped.builders : builders[b].client = c
        /\ \E s, t \in dropped.services :
              /\ s # t
              /\ services[s].client = c /\ services[t].client = c

\* the step appends a service through Builder::build (in SpecCtor every
\* other step that appends a service is a constructor and says so in ret)
BuildStep == Len(services') = Len(services) + 1 /\ ret'.op = "none"

\* C14: build(rule) mints a service holding the given rule, the builder's
\* client handle (one more owner of it) and the builder's scheme and
\* authority; it leaves the builder and the services minted earlier as they
\* were, so all services built from one builder share one client and one
\* target, while each advances a rule of its own.
C14_BuildSharesClientAndTarget ==
    /\ [](\A s, t \in DOMAIN services :
            services[s].client = services[t].client =>
                /\ services[s].scheme = services[t].scheme
                /\ services[s].authority = services[t].authority)
    /\ [][/\ \A b \in DOMAIN builders : builders'[b] = builders[b]
          /\ BuildStep =>
                LET new == services'[Len(services')]
                IN  /\ \E b \in DOMAIN builders :
                          /\ new.client = builders[b].client
                          /\ new.scheme = builders[b].scheme
                          /\ new.authority = builders[b].authority
                          /\ arcs'[new.client] = arcs[new.client] + 1
                    /\ new.kind = "reused"
                    /\ new.path \in MainRules
                    /\ builders' = builders
                    /\ \A s \in DOMAIN services : services'[s] = services[s]
          /\ \A s \in DOMAIN services :
                services'[s].path # services[s].path =>
                    \A t \in DOMAIN services \ {s} : services'[t] = services[t]]_vars

\* C14 witness: two services built from one https builder with the same
\* stateful rule; a call has advanced the rule of the first and not that of
\* the second.
C14_Witness ==
    \E s, t \in DOMAIN services, b \in DOMAIN builders :
        /\ s # t
        /\ services[s].client = builders[b].client
        /\ services[t].client = builders[b].client
        /\ builders[b].scheme = Https /\ services[s].scheme = Https
        /\ services[s].path.tag = "Func" /\ services[t].path.tag = "Func"
        /\ services[s].path.n = 1 /\ services[t].path.n = 0

\* the futures dropped by the step
DroppedNow == dropped'.futs \ dropped.futs

\* C15: a future dropped before it completed takes its pending operation
\* with it.  No operation of a dropped future is pending or ready to be
\* read; the drop hands nothing to the client and touches no service,
\* builder, client count or other future; and nothing happens to a dropped
\* future afterwards.
C15_DropReleasesOperation ==
    /\ [](\A i \in dropped.futs :
            futs[i].inner.tag = "Ok" => futs[i].inner.op.st = "dropped")
    /\ [][/\ DroppedNow # {} =>
                /\ UNCHANGED <<net, services, builders, arcs>>
                /\ \A j \in DOMAIN futs \ DroppedNow : futs'[j] = futs[j]
          /\ \A i \in dropped.futs : futs'[i] = futs[i]]_vars

\* C15 witness: a dispatched future was polled, found pending and dropped;
\* another future has since received its response.
C15_Witness ==
    \E i \in dropped.futs, j \in DOMAIN futs \ dropped.futs :
        /\ futs[i].inner.tag = "Ok" /\ futs[i].nReady = 0
        /\ futs[i].last = Some(Pending)
        /\ Cardinality(Dispatches(i)) = 1
        /\ i < j
        /\ LastReady(futs[j]) /\ futs[j].last[1].val.tag = "Ok"

\* C16: the error taxonomy is exactly two kinds tied to their origin.  The
\* value a poll returns is error(InvalidUri) exactly when the future was
\* made by a failed URI rebuild (and so never dispatched), it is
\* error(RequestFailed) exactly when the dispatched operation completed with
\* a failure, and it is otherwise the response.
C16_ErrorTaxonomy ==
    [][\A i \in DOMAIN futs :
          (futs'[i].last # futs[i].last /\ futs'[i].last[1].tag = "Ready") =>
              LET f == futs[i]
                  val == futs'[i].last[1].val
                  rebuildFailed == RebuildFails(f) /\ Dispatches(i) = {}
                  requestFailed == /\ f.inner.tag = "Ok"
                                   /\ f.inner.op.st = "ready"
                                   /\ f.inner.op.res.tag = "Err"
              IN  /\ val.tag \in {"Ok", "Err"}
                  /\ val.tag = "Err" => val.val.kind \in {"InvalidUri", "RequestFailed"}
                  /\ (val.tag = "Err" /\ val.val.kind = "InvalidUri") <=> rebuildFailed
                  /\ (val.tag = "Err" /\ val.val.kind = "RequestFailed") <=> requestFailed
                  /\ val.tag = "Ok" <=> (~rebuildFailed /\ ~requestFailed)]_vars

\* C16 witness: two calls on the same service ended with the two kinds: the
\* first with InvalidUri, never dispatched, the second with RequestFailed
\* after its dispatch.
C16_Witness ==
    \E i, j \in DOMAIN futs :
        /\ futs[i].svc = futs[j].svc
        /\ LastReady(futs[i]) /\ futs[i].last[1].val.tag = "Err"
        /\ futs[i].last[1].val.val.kind = "InvalidUri"
        /\ Dispatches(i) = {}
        /\ LastReady(futs[j]) /\ futs[j].last[1].val.tag = "Err"
        /\ futs[j].last[1].val.val.kind = "RequestFailed"
        /\ Dispatches(j) # {}

\* the calls made on service s, as indices of futs (which is in call order)
CallsOf(s) == {i \in DOMAIN futs : futs[i].svc = s}

\* the largest element of a non-empty set of numbers
SetMax(S) == CHOOSE x \in S : \A y \in S : y <= x

\* the rule service s was constructed with
InitialRule(s) ==
    IF services[s].path.tag = "Func"
    THEN [services[s].path EXCEPT !.n = 0] ELSE services[s].path

\* C17: rewrites on one service instance never overlap and happen in call
\* order.  Each call sees the rule exactly as the previous call on that
\* service left it (the first sees the rule the service was built with),
\* the service holds the rule as its latest call left it, and the rewrite
\* is complete when call() returns: the future's path is already decided,
\* whichever of the earlier futures are pending or polled meanwhile.
C17_RewritesInCallOrder ==
    /\ \A i \in DOMAIN futs :
          LET s == futs[i].svc
              earlier == {k \in CallsOf(s) : k < i}
          IN  /\ futs[i].rule = IF earlier = {} THEN InitialRule(s)
                                ELSE RewriteState(futs[SetMax(earlier)].rule)
              /\ futs[i].inner.tag = "Err" <=> RebuildFails(futs[i])
    /\ \A s \in DOMAIN services :
          services[s].path = IF CallsOf(s) = {} THEN InitialRule(s)
                             ELSE RewriteState(futs[SetMax(CallsOf(s))].rule)

\* C17 witness: two calls on one service with a stateful rule; the second
\* call saw the rule as advanced by the first and has completed, while the
\* future of the first call has not been polled yet.
C17_Witness ==
    \E i, j \in DOMAIN futs :
        /\ i < j /\ futs[i].svc = futs[j].svc
        /\ futs[i].rule.tag = "Func"
        /\ futs[j].rule = RewriteState(futs[i].rule)
        /\ futs[j].rule # futs[i].rule
        /\ futs[i].last = None
        /\ LastReady(futs[j])

\* the step is a call: it appends a future
CallStep == Len(futs') = Len(futs) + 1

\* C20: call() runs the service's rule exactly once, inside call() and
\* before the returned future is polled, whether or not the rebuild then
\* fails and whether or not the future is ever polled; no other step runs a
\* rule.  So a stateful rule has been advanced exactly as many times as its
\* service has been called.
C20_RuleOncePerCall ==
    /\ [](\A s \in DOMAIN services :
            services[s].path.tag = "Func" =>
                services[s].path.n = Cardinality(CallsOf(s)))
    /\ [][IF CallStep
          THEN LET new == futs'[Len(futs')]
                   s == new.svc
               IN  /\ new.last = None /\ new.nReady = 0
                   /\ new.rule = services[s].path
                   /\ services'[s].path = RewriteState(services[s].path)
                   /\ \A t \in DOMAIN services \ {s} : services'[t] = services[t]
          ELSE \A s \in DOMAIN services : services'[s].path = services[s].path]_vars

\* C20 witness: a service with a stateful rule was called twice; the rebuild
\* of the first call failed and the future of the second was dropped
\* without being polled; the rule has been advanced twice.
C20_Witness ==
    \E s \in DOMAIN services, i, j \in DOMAIN futs :
        /\ i < j /\ futs[i].svc = s /\ futs[j].svc = s
        /\ services[s].path.tag = "Func" /\ services[s].path.n = 2
        /\ futs[i].inner.tag = "Err" /\ RebuildFails(futs[i])
        /\ j \in dropped.futs /\ futs[j].last = None

\* s begins with p
BeginsWith(s, p) == Len(p) <= Len(s) /\ SubSeq(s, 1, Len(p)) = p

RECURSIVE CountOccurrences(_, _)
\* the number of non-overlapping occurrences of old in s, found from the
\* left; the empty string occurs at every boundary of s
CountOccurrences(s, old) ==
    IF old = <<>> THEN Len(s) + 1
    ELSE IF Len(s) < Len(old) THEN 0
    ELSE IF BeginsWith(s, old)
         THEN 1 + CountOccurrences(SubSeq(s, Len(old) + 1, Len(s)), old)
         ELSE CountOccurrences(Tail(s), old)

RECURSIVE ReplaceLeftmost(_, _, _, _)
\* s with its leftmost n non-overlapping occurrences of old replaced by new
\* and everything else kept
ReplaceLeftmost(s, old, new, n) ==
    IF n = 0 THEN s
    ELSE IF old = <<>>
         THEN IF s = <<>> THEN new
              ELSE new \o <<Head(s)>> \o ReplaceLeftmost(Tail(s), old, new, n - 1)
    ELSE IF Len(s) < Len(old) THEN s
    ELSE IF BeginsWith(s, old)
         THEN new \o ReplaceLeftmost(SubSeq(s, Len(old) + 1, Len(s)), old, new, n - 1)
         ELSE <<Head(s)>> \o ReplaceLeftmost(Tail(s), old, new, n)

\* C18: ReplaceN(old, new, n) with n at least the number of non-overlapping
\* occurrences of old in the path returns what ReplaceAll(old, new) returns
\* (the count is clamped, never an error); with a smaller n it replaces
\* exactly the leftmost n occurrences and keeps the rest of the path.
C18_ReplaceNClamps ==
    (rw.phase = "out" /\ rw.rule.tag = "ReplaceN") =>
        LET occ == CountOccurrences(rw.path, rw.rule.old)
        IN  /\ rw.rule.n >= occ =>
                   /\ rw.out = RewriteOut(ReplaceAll(rw.rule.old, rw.rule.new), rw.path)
                   /\ rw.out = ReplaceLeftmost(rw.path, rw.rule.old, rw.rule.new, occ)
            /\ rw.rule.n < occ =>
                   rw.out = ReplaceLeftmost(rw.path, rw.rule.old, rw.rule.new, rw.rule.n)

\* C18 witness: ReplaceN("a", "b", 2) has rewritten a path with a single
\* occurrence of "a": the count is clamped and the occurrence replaced.
C18_Witness ==
    /\ rw.phase = "out"
    /\ rw.rule = ReplaceN(<<"a">>, <<"b">>, 2)
    /\ rw.path = <<"/", "a">>
    /\ CountOccurrences(rw.path, rw.rule.old) < rw.rule.n
    /\ rw.out = <<"/", "b">>

\* C19: TrimPrefix(p) removes one occurrence of p from the start of the
\* path when the path begins with p, TrimSuffix(s) one occurrence of s from
\* its end when the path ends with s, and each returns the path as it is
\* otherwise; what is left is not trimmed again.  TrimPrefix("/foo") on
\* "/foo/foo/bar" is "/foo/bar".
C19_TrimOnce ==
    /\ (rw.phase = "out" /\ rw.rule.tag = "TrimPrefix") =>
           IF BeginsWith(rw.path, rw.rule.old)
           THEN rw.rule.old \o rw.out = rw.path
           ELSE rw.out = rw.path
    /\ (rw.phase = "out" /\ rw.rule.tag = "TrimSuffix") =>
           IF \E pre \in {SubSeq(rw.path, 1, k) : k \in 0..Len(rw.path)} :
                  pre \o rw.rule.old = rw.path
           THEN rw.out \o rw.rule.old = rw.path
           ELSE rw.out = rw.path
    /\ (rw.phase = "out" /\ rw.rule = TrimPrefix(<<"/", "f", "o", "o">>)
            /\ rw.path = FooFooBar) => rw.out = FooBar
    /\ (rw.phase = "out" /\ rw.rule = TrimSuffix(Foo) /\ rw.path = BarFooFoo)
           => rw.out = BarFoo

\* C19 witness: TrimPrefix("/foo") has rewritten "/foo/foo/bar", which
\* still begins with "/foo" afterwards.
C19_Witness ==
    /\ rw.phase = "out"
    /\ rw.rule = TrimPrefix(<<"/", "f", "o", "o">>)
    /\ rw.path = FooFooBar
    /\ rw.out = FooBar
    /\ BeginsWith(rw.out, rw.rule.old)

(***************************************************************************)
(* C21: the target scheme set by the default constructors.                 *)
(***************************************************************************)
\* the constructors that are documented to give an https target
HttpsConstructors ==
    {"OneshotService::https_default", "ReusedService::https_default",
     "builder_https"}

\* the constructors that are documented to give a plain http target
HttpConstructors ==
    {"OneshotService::http_default", "ReusedService::http_default",
     "builder_http"}

\* the scheme the claim gives the target of a default constructor
ClaimedScheme(fn) == IF fn \in HttpsConstructors THEN Https ELSE Http

\* the step is a default constructor returning Ok
DefaultCtorStep ==
    /\ ret'.op = "ctor" /\ ret'.ok
    /\ ret'.fn \in HttpsConstructors \cup HttpConstructors

\* the target scheme of what the constructor of this step returned
ConstructedScheme ==
    IF Len(builders') > Len(builders)
    THEN builders'[Len(builders')].scheme
    ELSE services'[Len(services')].scheme

\* the step is Builder::build on the builder that the previous step obtained
\* from a default builder constructor
BuildAfterDefaultBuilder ==
    /\ ret.op = "ctor" /\ ret.ok
    /\ ret.fn \in {"builder_https", "builder_http"}
    /\ BuildStep
    /\ services'[Len(services')].client = builders[Len(builders)].client

\* C21: every https constructor (OneshotService::https_default,
\* ReusedService::https_default, builder_https) sets the target scheme to
\* https and every plain-http constructor sets it to http; a service minted
\* from the builder of builder_https has scheme https, as a service of
\* https_default has.
C21_HttpsConstructorsSetHttps ==
    [][/\ DefaultCtorStep => ConstructedScheme = ClaimedScheme(ret'.fn)
       /\ BuildAfterDefaultBuilder =>
             services'[Len(services')].scheme = ClaimedScheme(ret.fn)]_vars

(***************************************************************************)
(* C22: rewrite_uri on a request whose URI has no query.                   *)
(***************************************************************************)
\* C22: when the incoming URI has no query and rewrite_uri succeeds, the
\* outgoing URI has no query either, for every rule and every rewrite
\* result, those of Static and Func containing '?' or '#' included: the
\* rewrite result never creates a query.
C22_NoQueryStaysNoQuery ==
    (rw.phase = "out" /\ rw.res.ok /\ UriQuery(rw.req.uri) = None)
        => UriQuery(rw.res.req.uri) = None

(***************************************************************************)
(* C23: a failed rewrite_uri leaves the request and the service's client   *)
(* and target alone.                                                       *)
(***************************************************************************)
\* the step is a call whose rewrite_uri failed
FailedCallStep ==
    /\ Len(futs') = Len(futs) + 1
    /\ futs'[Len(futs')].inner.tag = "Err"

\* the client and the target of a service
ClientAndTarget(svc) ==
    [kind |-> svc.kind, client |-> svc.client, scheme |-> svc.scheme,
     authority |-> svc.authority]

\* C23: when rewrite_uri fails it returns the error and the request is as on
\* entry (URI, method, headers, body, version); the failed call leaves the
\* service's client and target, the other services, the builders and the
\* client's share count as they were and hands nothing to the client; a
\* later call on the same service is sent to the same target.
C23_FailedRewriteLeavesRequestAndTarget ==
    /\ []((rw.phase = "out" /\ ~rw.res.ok) =>
              /\ rw.res.req = rw.req
              /\ rw.res.err # None)
    /\ [][FailedCallStep =>
              /\ \A s \in DOMAIN services :
                    ClientAndTarget(services'[s]) = ClientAndTarget(services[s])
              /\ DOMAIN services' = DOMAIN services
              /\ builders' = builders
              /\ arcs' = arcs
              /\ net' = net]_vars
    /\ [](\A i, j \in DOMAIN futs :
              (/\ i < j /\ futs[i].svc = futs[j].svc
               /\ futs[i].inner.tag = "Err" /\ Dispatches(j) # {}) =>
                  LET sent == SentUri(j)[1]
                  IN  /\ sent.scheme = Some(services[futs[j].svc].scheme)
                      /\ sent.authority = Some(services[futs[j].svc].authority))

\* C23 witness: rewrite_uri has failed on a request that carries headers and
\* a body, and a service whose first call failed in the rewrite has had its
\* second call dispatched.
C23_Witness ==
    /\ rw.phase = "out" /\ ~rw.res.ok
    /\ rw.req.method = "POST" /\ rw.req.headers # <<>>
    /\ \E i, j \in DOMAIN futs :
          /\ i < j /\ futs[i].svc = futs[j].svc
          /\ futs[i].inner.tag = "Err" /\ Dispatches(i) = {}
          /\ Dispatches(j) # {}
====
